---- MODULE Spec2Model ----
(***************************************************************************)
(* Model of the search / recommendation pipeline of the appliance-parts    *)
(* backend: intent parsing (gpt_query_processor.py), embedding search      *)
(* (semantic_search.py), upsell selection and narrative composition        *)
(* (gpt_response_generator.py), the orchestrator (intelligent_search.py)   *)
(* and the /search and /chat handlers (api/routes).                        *)
(*                                                                         *)
(* Conventions.  A nullable Python value is None (the empty tuple) or      *)
(* Some(x) (a one-element tuple).  A Python str that the code inspects     *)
(* character by character (the query text) is a tuple of one-character     *)
(* strings.  A dict is a function whose DOMAIN is its key set, read with   *)
(* Get(d, k, default) as dict.get does.  A cosine similarity is kept in    *)
(* thousandths (1000 = 1.0).                                               *)
(***************************************************************************)
EXTENDS Integers, Sequences, FiniteSets, TLC

VARIABLES
    catalog,    \* rows of the products table of the database at DATABASE_PATH
    env,        \* process environment: API key present, argsort tie order of the build
    pc,         \* position of the request being handled
    req,        \* the request (handler kind, query text, top_k, db path)
    intentOut,  \* what the intent-parse model call did
    parsed,     \* parse_query_with_gpt's outcome
    embedOut,   \* what the embedding service call did
    results,    \* search_products' return value
    composeOut, \* what the composition model call did
    composed,   \* generate_response's outcome
    suggested,  \* the upsells generate_response selected: None before it selects
    response,   \* what the caller of the handler / orchestrator receives
    process,    \* what the process holds and has initialised so far: the /chat
                \* singleton, the loads of the embedding store, the clients made
    backlog,    \* requests the server has accepted whose handler has not started
    earlier     \* observer: a request this process handled before, as it ended

vars == <<catalog, env, pc, req, intentOut, parsed, embedOut, results,
          composeOut, composed, suggested, response, process, backlog, earlier>>

----------------------------------------------------------------------------
(* Bounds of the model *)

MaxProducts == 3
MaxTopK == 4
MaxOmitted == 1
MaxCatalog == 3
MaxBacklog == 1
MaxHistory == 2

----------------------------------------------------------------------------
(* Python values *)

None == <<>>
Some(x) == <<x>>
Unset == [kind |-> "unset"]

\* dict.get(key, default): the default only when the key is absent
Get(d, k, default) == IF k \in DOMAIN d THEN d[k] ELSE default

Min(a, b) == IF a < b THEN a ELSE b
Max(a, b) == IF a > b THEN a ELSE b

\* seq[:n] for n >= 0
Prefix(s, n) == SubSeq(s, 1, Min(n, Len(s)))

----------------------------------------------------------------------------
(* Text: a str is a tuple of one-character strings *)

UpperAlphabet == <<"A", "B", "C", "D", "E", "F", "G", "H", "I", "J", "K", "L", "M",
                   "N", "O", "P", "Q", "R", "S", "T", "U", "V", "W", "X", "Y", "Z">>
LowerAlphabet == <<"a", "b", "c", "d", "e", "f", "g", "h", "i", "j", "k", "l", "m",
                   "n", "o", "p", "q", "r", "s", "t", "u", "v", "w", "x", "y", "z">>

LowerChar(c) ==
    IF \E i \in DOMAIN UpperAlphabet : UpperAlphabet[i] = c
    THEN LowerAlphabet[CHOOSE i \in DOMAIN UpperAlphabet : UpperAlphabet[i] = c]
    ELSE c

UpperChar(c) ==
    IF \E i \in DOMAIN LowerAlphabet : LowerAlphabet[i] = c
    THEN UpperAlphabet[CHOOSE i \in DOMAIN LowerAlphabet : LowerAlphabet[i] = c]
    ELSE c

\* str.lower()
StrLower(s) == [i \in 1..Len(s) |-> LowerChar(s[i])]

\* str.title() of a single lower-case word (the brand names of the fixed list)
StrTitle(w) == IF w = <<>> THEN <<>> ELSE <<UpperChar(w[1])>> \o Tail(w)

\* sub in s
IsSubstr(sub, s) ==
    \E i \in 0..(Len(s) - Len(sub)) : SubSeq(s, i + 1, i + Len(sub)) = sub

RECURSIVE SplitFrom(_, _, _)
SplitFrom(s, i, cur) ==
    IF i > Len(s)
    THEN (IF cur = <<>> THEN <<>> ELSE <<cur>>)
    ELSE IF s[i] = " "
         THEN (IF cur = <<>> THEN <<>> ELSE <<cur>>) \o SplitFrom(s, i + 1, <<>>)
         ELSE SplitFrom(s, i + 1, Append(cur, s[i]))

\* str.split(): the maximal runs of non-blank characters
StrSplit(s) == SplitFrom(s, 1, <<>>)

----------------------------------------------------------------------------
(* gpt_query_processor.py: the rule-based fallback extractor *)

\* brands, in the order of the list
FallbackBrands == <<
    <<"w", "h", "i", "r", "l", "p", "o", "o", "l">>,
    <<"g", "e">>,
    <<"s", "a", "m", "s", "u", "n", "g">>,
    <<"l", "g">>,
    <<"f", "r", "i", "g", "i", "d", "a", "i", "r", "e">>,
    <<"b", "o", "s", "c", "h">>,
    <<"k", "i", "t", "c", "h", "e", "n", "a", "i", "d">>,
    <<"m", "a", "y", "t", "a", "g">> >>

\* categories, in the insertion order of the dict
FallbackCategories == <<
    [name |-> "refrigerator", keywords |-> <<<<"f", "r", "i", "d", "g", "e">>, <<"r", "e", "f", "r", "i", "g", "e", "r", "a", "t", "o", "r">>, <<"f", "r", "e", "e", "z", "e", "r">>>>],
    [name |-> "dishwasher", keywords |-> <<<<"d", "i", "s", "h", "w", "a", "s", "h", "e", "r">>>>],
    [name |-> "washer", keywords |-> <<<<"w", "a", "s", "h", "e", "r">>, <<"w", "a", "s", "h", "i", "n", "g", " ", "m", "a", "c", "h", "i", "n", "e">>>>],
    [name |-> "dryer", keywords |-> <<<<"d", "r", "y", "e", "r">>>>] >>

\* the first index (in order) whose flag is TRUE, as Some(index), or None:
\* the `for ... if ...: break` loops
FirstTrue(flags) ==
    IF \E i \in DOMAIN flags : flags[i]
    THEN Some(CHOOSE i \in DOMAIN flags : flags[i] /\ \A j \in DOMAIN flags : flags[j] => i <= j)
    ELSE None

DetectBrand(query_text) ==
    LET low == StrLower(query_text)
        at == FirstTrue([i \in DOMAIN FallbackBrands |-> IsSubstr(FallbackBrands[i], low)])
    IN IF at = None THEN None ELSE Some(StrTitle(FallbackBrands[at[1]]))

DetectCategory(query_text) ==
    LET low == StrLower(query_text)
        Hit(c) == \E k \in DOMAIN c.keywords : IsSubstr(c.keywords[k], low)
        at == FirstTrue([i \in DOMAIN FallbackCategories |-> Hit(FallbackCategories[i])])
    IN IF at = None THEN None ELSE Some(FallbackCategories[at[1]].name)

create_fallback_parse(query_text) ==
    [ intent            |-> Some("find_part"),
      part_type         |-> None,
      brand             |-> DetectBrand(query_text),
      model_number      |-> None,
      category          |-> DetectCategory(query_text),
      keywords          |-> Some(Prefix(StrSplit(StrLower(query_text)), 10)),
      price_sensitivity |-> None,
      urgency           |-> Some("normal"),
      fallback          |-> Some(TRUE) ]

----------------------------------------------------------------------------
(* gpt_query_processor.py: parse_query_with_gpt *)

\* the keys the instruction template asks the model for
IntentKeys == {"intent", "part_type", "brand", "model_number", "category",
               "keywords", "price_sensitivity", "urgency"}

\* required_fields of parse_query_with_gpt
required_fields == {"intent", "part_type", "brand", "category", "keywords"}

\* What the intent model call can do:
\*   error      client.chat.completions.create raised (transport, timeout)
\*   none       the completion's content is None
\*   malformed  the content is not JSON
\*   scalar     the content is a JSON number, true, false or null
\*   array      a JSON array;  names = the required fields that are elements of it
\*   string     a JSON string; names = the required fields that are substrings of it
\*              (the outcomes drawn hold none of them, or one)
\*   object     a JSON object with the keys DOMAIN obj
ModelObject(K) == [k \in K |-> Some("v")]

IntentOutcomes(maxOmitted) ==
    {[kind |-> "error"], [kind |-> "none"], [kind |-> "malformed"], [kind |-> "scalar"]}
    \cup {[kind |-> k, names |-> n] : k \in {"array", "string"}, n \in {{}, {"intent"}}}
    \cup {[kind |-> "object", obj |-> ModelObject(IntentKeys \ S)] :
             S \in {T \in SUBSET IntentKeys : Cardinality(T) <= maxOmitted} \cup {IntentKeys}}

\* the try block: json.loads and the required-fields loop.
\* "raised" stands for any exception the two except clauses catch.
ParseTry(out) ==
    CASE out.kind = "object" ->
            [kind |-> "dict",
             d |-> [k \in (DOMAIN out.obj) \cup required_fields |->
                        IF k \in DOMAIN out.obj THEN out.obj[k] ELSE None]]
      [] out.kind \in {"array", "string"} ->
            \* `field not in parsed_query` is membership; the first missing field
            \* makes `parsed_query[field] = None` raise TypeError
            IF required_fields \subseteq out.names
            THEN [kind |-> out.kind, names |-> out.names]
            ELSE [kind |-> "raised"]
      [] OTHER -> [kind |-> "raised"]

\* a parse_query_with_gpt that catches json.JSONDecodeError only
parse_query_with_gpt_json_only(query_text, has_client, api_key, out) ==
    IF ~has_client /\ ~api_key
    THEN [kind |-> "raised", error |-> "ValueError"]
    ELSE IF out.kind = "malformed"
         THEN [kind |-> "dict", d |-> create_fallback_parse(query_text)]
         ELSE ParseTry(out)

\* has_client: a client was passed in; api_key: OPENAI_API_KEY is set
parse_query_with_gpt(query_text, has_client, api_key, out) ==
    IF ~has_client /\ ~api_key
    THEN [kind |-> "raised", error |-> "ValueError"]
    ELSE LET r == ParseTry(out)
         IN IF r.kind = "raised"
            THEN [kind |-> "dict", d |-> create_fallback_parse(query_text)]
            ELSE r

----------------------------------------------------------------------------
(* semantic_search.py *)

DATABASE_PATH == "database/products.db"

\* the columns load_product_embeddings selects
LoadedColumns == {"sku", "product_name", "brand", "category", "sale_price", "embedding"}

\* An embedding payload: null (SQL NULL), empty (b''), garbage (pickle.loads
\* raises) or pickle (decodes to vec)
Decodable(row) == row.embedding.kind = "pickle"

\* a load_product_embeddings that pairs the products with the vectors in
\* reverse order
load_product_embeddings_misaligned(rows) ==
    LET kept == SelectSeq(rows, LAMBDA r : r.embedding.kind # "null"
                                           /\ r.embedding.kind # "empty"
                                           /\ Decodable(r))
    IN [products   |-> [i \in 1..Len(kept) |-> [c \in LoadedColumns |-> kept[i][c]]],
        embeddings |-> [i \in 1..Len(kept) |-> kept[Len(kept) + 1 - i].embedding.vec]]

\* (products, embeddings): the rows with a decodable payload, in table order
load_product_embeddings(rows) ==
    LET kept == SelectSeq(rows, LAMBDA r : r.embedding.kind # "null"
                                           /\ r.embedding.kind # "empty"
                                           /\ Decodable(r))
    IN [products   |-> [i \in 1..Len(kept) |-> [c \in LoadedColumns |-> kept[i][c]]],
        embeddings |-> [i \in 1..Len(kept) |-> kept[i].embedding.vec]]

RECURSIVE Dot(_, _)
Dot(a, b) == IF a = <<>> THEN 0 ELSE Head(a) * Head(b) + Dot(Tail(a), Tail(b))

\* 1000 * sqrt(n), rounded down
RootMilli(n) ==
    CASE n = 1 -> 1000
      [] n = 2 -> 1414
      [] n = 4 -> 2000
      [] OTHER -> CHOOSE r \in 0..(1000 * n) :
                    r * r <= n * 1000000 /\ (r + 1) * (r + 1) > n * 1000000

\* cosine similarity in thousandths; a zero-norm vector gives 0
CosSim(q, v) ==
    LET d == Dot(q, v)
        n == Dot(q, q) * Dot(v, v)
    IN IF n = 0 THEN 0
       ELSE IF d >= 0 THEN (d * 1000000) \div RootMilli(n)
            ELSE 0 - (((0 - d) * 1000000) \div RootMilli(n))

\* np.argsort: the indices in ascending order of sims.  The default kind is not
\* a stable sort: equal values come out in ascending index order (stable) or
\* in another order, here descending, depending on the build.
argsort(sims, stable) ==
    LET N == Len(sims)
        Before(i, j) == \/ sims[i] < sims[j]
                        \/ sims[i] = sims[j] /\ (IF stable THEN i < j ELSE i > j)
        Pos(i) == 1 + Cardinality({j \in 1..N : Before(j, i)})
    IN [p \in 1..N |-> CHOOSE i \in 1..N : Pos(i) = p]

\* a[len(a) - k:], which wraps around when k > len(a)
SliceLast_wrap(a, k) ==
    LET N == Len(a)
        start == IF N - k >= 0 THEN N - k ELSE Max(N + (N - k), 0)
    IN SubSeq(a, start + 1, N)

\* a[-k:]
SliceLast(a, k) ==
    LET N == Len(a)
        start == IF k > 0 THEN Max(N - k, 0)
                 ELSE Min(0 - k, N)
    IN SubSeq(a, start + 1, N)

\* a[::-1]
Reversed(a) == [i \in 1..Len(a) |-> a[Len(a) + 1 - i]]

\* np.argsort(similarities)[-top_k:], the reversal forgotten
top_indices_ascending(sims, top_k, stable) == SliceLast(argsort(sims, stable), top_k)

\* np.argsort(similarities)[-top_k:][::-1]
top_indices(sims, top_k, stable) == Reversed(SliceLast(argsort(sims, stable), top_k))

\* What the embedding service call can do: error (transport), or a vector
\* embed_search_query: "raised" when the key is missing or the call fails
embed_search_query(api_key, out) ==
    IF ~api_key THEN [kind |-> "raised", error |-> "ValueError"]
    ELSE IF out.kind = "error" THEN [kind |-> "raised", error |-> "APIConnectionError"]
    ELSE [kind |-> "vec", vec |-> out.vec]

\* search_products; every exception inside it is caught and [] returned
search_products(rows, api_key, out, top_k, stable) ==
    LET loaded == load_product_embeddings(rows)
        products == loaded.products
        embeddings == loaded.embeddings
        N == Len(products)
    IN IF N = 0 THEN <<>>
       ELSE LET q == embed_search_query(api_key, out)
            IN IF q.kind = "raised" THEN <<>>
               ELSE IF \E i \in 1..N : Len(embeddings[i]) # Len(q.vec)
                    THEN <<>>   \* cosine_similarity raises ValueError
                    ELSE LET sims == [i \in 1..N |-> CosSim(q.vec, embeddings[i])]
                             top == top_indices(sims, top_k, stable)
                         IN [j \in 1..Len(top) |->
                                [c \in LoadedColumns \cup {"similarity"} |->
                                    IF c = "similarity" THEN sims[top[j]]
                                    ELSE products[top[j]][c]]]

\* hybrid_search: parsed_query is not used
hybrid_search(rows, api_key, out, parsed_query, top_k, stable) ==
    search_products(rows, api_key, out, top_k, stable)

----------------------------------------------------------------------------
(* gpt_response_generator.py *)

\* a suggest_upsells without `sku NOT IN (...)`
suggest_upsells_any_sku(rows, primary_products, num_suggestions) ==
    IF primary_products = <<>> THEN <<>>
    ELSE LET primary_brand == Get(primary_products[1], "brand", Some(""))
             hit == SelectSeq(rows, LAMBDA r : /\ primary_brand # None
                                               /\ r.brand = primary_brand
                                               /\ r.in_stock = 1)
         IN Prefix(hit, num_suggestions)

\* a suggest_upsells without `in_stock = 1`
suggest_upsells_any_stock(rows, primary_products, num_suggestions) ==
    IF primary_products = <<>> THEN <<>>
    ELSE LET primary_brand == Get(primary_products[1], "brand", Some(""))
             primary_skus == {primary_products[i].sku : i \in DOMAIN primary_products}
             hit == SelectSeq(rows, LAMBDA r : /\ r.sku \notin primary_skus
                                               /\ primary_brand # None
                                               /\ r.brand = primary_brand)
         IN Prefix(hit, num_suggestions)

\* The SQL of suggest_upsells: rows outside the primary SKUs, of the first
\* primary product's brand (brand = NULL matches no row), in stock, the first
\* num_suggestions in table order.  SELECT * keeps every column.
suggest_upsells(rows, primary_products, num_suggestions) ==
    IF primary_products = <<>> THEN <<>>
    ELSE LET primary_brand == Get(primary_products[1], "brand", Some(""))
             primary_skus == {primary_products[i].sku : i \in DOMAIN primary_products}
             hit == SelectSeq(rows, LAMBDA r : /\ r.sku \notin primary_skus
                                               /\ primary_brand # None
                                               /\ r.brand = primary_brand
                                               /\ r.in_stock = 1)
         IN Prefix(hit, num_suggestions)

\* f"{x:.2f}" raises TypeError when x is None
FormatRaises(price) == price = None

\* format_upsells_for_gpt: TRUE when it raises
format_upsells_raises(upsell_products) ==
    \E i \in DOMAIN upsell_products :
        FormatRaises(Get(upsell_products[i], "sale_price", Some(0)))

\* the constant text of generate_no_results_response's except branch
Apology == [kind |-> "text", text |-> "I couldn't find exact matches for your query. ..."]

\* what a chat completion call returns: the completion's content
Completion(out) == [kind |-> "content", content |-> out.content]

generate_no_results_response(out) ==
    IF out.kind = "error"
    THEN [kind |-> "returned", value |-> Apology]
    ELSE [kind |-> "returned", value |-> Completion(out)]

generate_fallback_response(products, upsells) ==
    IF products = <<>>
    THEN [kind |-> "returned",
          value |-> [kind |-> "text", text |-> "No products found matching your criteria. ..."]]
    ELSE LET shown == Prefix(products, 3)
             also == Prefix(upsells, 2)
         IN IF \/ \E i \in DOMAIN shown : FormatRaises(Get(shown[i], "sale_price", Some(0)))
               \/ \E i \in DOMAIN also : FormatRaises(Get(also[i], "sale_price", Some(0)))
            THEN [kind |-> "raised", error |-> "TypeError"]
            ELSE [kind |-> "returned",
                  value |-> [kind |-> "template",
                             primary |-> [i \in DOMAIN shown |->
                                 [name  |-> Get(shown[i], "product_name", "Unknown"),
                                  sku   |-> Get(shown[i], "sku", "N/A"),
                                  price |-> Get(shown[i], "sale_price", Some(0))[1],
                                  stock |-> IF Get(shown[i], "in_stock", 0) = 1
                                            THEN "In Stock" ELSE "Out of Stock"]],
                             upsells |-> [i \in DOMAIN also |->
                                 [name  |-> Get(also[i], "product_name", "Unknown"),
                                  price |-> Get(also[i], "sale_price", Some(0))[1]]]]]

\* rows: the products table at config.DATABASE_PATH.  called: the composition
\* model call was made.  upsells: what suggest_upsells returned, None when it
\* was not called.
generate_response(rows, products, include_upsells, out) ==
    IF products = <<>>
    THEN generate_no_results_response(out) @@ [called |-> TRUE, upsells |-> None]
    ELSE LET top_products == Prefix(products, 3)
             upsells == IF include_upsells
                        THEN suggest_upsells(rows, top_products, 2)
                        ELSE <<>>
         IN IF upsells # <<>> /\ format_upsells_raises(upsells)
            THEN [kind |-> "raised", error |-> "TypeError", called |-> FALSE,
                  upsells |-> Some(upsells)]
            ELSE IF out.kind = "error"
                 THEN generate_fallback_response(top_products, upsells)
                          @@ [called |-> TRUE, upsells |-> Some(upsells)]
                 ELSE [kind |-> "returned", value |-> Completion(out), called |-> TRUE,
                       upsells |-> Some(upsells)]

\* a narrative is a non-empty str
IsNonEmptyStr(n) ==
    CASE n.kind = "content" -> n.content # None /\ n.content # Some("")
      [] n.kind = "text" -> n.text # ""
      [] n.kind = "template" -> TRUE   \* opens with "I found these products for you:"
      [] OTHER -> FALSE

----------------------------------------------------------------------------
(* The databases.  The table at DATABASE_PATH is the catalog chosen initially; *)
(* any other path (the --db option of intelligent_search.py) holds OtherRows.  *)

Row(sku, brand, sale_price, in_stock, embedding) ==
    [sku |-> sku, product_name |-> sku, brand |-> brand, category |-> Some("Refrigerator Parts"),
     sale_price |-> sale_price, in_stock |-> in_stock, embedding |-> embedding]

Pickled(v) == [kind |-> "pickle", vec |-> v]

OtherPath == "other.db"
OtherRows == <<Row(1, Some("LG"), Some(20), 1, Pickled(<<1, 0>>))>>

Db(path) == IF path = DATABASE_PATH THEN catalog ELSE OtherRows

\* the catalogs of at most maxN rows over a set of row templates; the SKU of a
\* row is its position in the table
CatalogsOver(templates, maxN) ==
    UNION {{[i \in 1..n |-> [t[i] EXCEPT !.sku = i, !.product_name = i]] :
                t \in [1..n -> templates]} : n \in 0..maxN}

----------------------------------------------------------------------------
(* The handlers: /chat (api/routes/chat.py), /search (api/routes/search.py)  *)
(* and a direct call of IntelligentSearchSystem.search (intelligent_search.py) *)

\* /chat calls system.search with top_k=3
ChatTopK == 3

\* a /search without the try around extract_query_intent
ParseNext_uncaught(kind, p) ==
    IF p.kind = "raised" THEN "respond" ELSE "rank"

\* where a request goes after the intent parse: /search catches every exception
\* of the parse; IntelligentSearchSystem.search does not
ParseNext(kind, p) ==
    IF p.kind = "raised" /\ kind # "search" THEN "respond" ELSE "rank"

Ok(code, body) == [ok |-> TRUE, code |-> code, body |-> body]
Err(code, cause) == [ok |-> FALSE, code |-> code, cause |-> cause]

\* the similarity the handlers report: product.get('similarity') or
\* product.get('similarity_score')
ReportedSimilarity(product) ==
    IF "similarity" \in DOMAIN product /\ product.similarity # 0
    THEN Some(product.similarity)
    ELSE IF "similarity_score" \in DOMAIN product
         THEN Some(product.similarity_score)
         ELSE None

\* ChatMessage(role=..., content=...)
ChatMessage(role, content) == [role |-> role, content |-> content]

\* a /chat that appends to request.conversation_history itself
chat_history_in_place(conversation_history, message, narrative) ==
    LET history == conversation_history
                       \o <<ChatMessage("user", [kind |-> "message", text |-> message]),
                            ChatMessage("assistant", narrative)>>
    IN [returned |-> history, request |-> history]

\* /chat's history: a copy of the request's list, with two entries appended to
\* the copy.  returned: the list the response carries; request: the request's
\* own list after that.
chat_history(conversation_history, message, narrative) ==
    LET history == conversation_history
    IN [returned |-> history
                       \o <<ChatMessage("user", [kind |-> "message", text |-> message]),
                            ChatMessage("assistant", narrative)>>,
        request |-> conversation_history]

\* the request object once the /chat handler has run: system.search raising
\* leaves before the history is built
ChatRequestAfter(r, p, c) ==
    IF p.kind = "raised" \/ c.kind = "raised" THEN r
    ELSE [r EXCEPT !.conversation_history =
                      chat_history(r.conversation_history, r.query, c.value).request]

\* the ChatResponse, or the HTTP error: an exception of system.search is a 500;
\* ChatMessage(content=None) fails validation, a ValueError, a 503
ChatRespond(r, p, c, res) ==
    IF p.kind = "raised" THEN Err(500, "parse")
    ELSE IF c.kind = "raised" THEN Err(500, "compose")
    ELSE IF c.value.kind = "content" /\ c.value.content = None
         THEN Err(503, "validation")
         ELSE Ok(200, [message  |-> c.value,
                       products |-> [i \in DOMAIN Prefix(res, 5) |->
                                        [sku |-> res[i].sku,
                                         similarity |-> ReportedSimilarity(res[i])]],
                       conversation_history |->
                           chat_history(r.conversation_history, r.query, c.value).returned])

\* str.lower() of the brand and category names of the catalogs
NameLower(name) ==
    CASE name = "GE" -> "ge"
      [] name = "LG" -> "lg"
      [] name = "Refrigerator Parts" -> "refrigerator parts"
      [] name = "Dryer Parts" -> "dryer parts"
      [] OTHER -> name

Returned(value) == [kind |-> "returned", value |-> value]

\* apply_filters: one list comprehension per supplied filter, each over what
\* the one before kept.  p.get(key, default) is None for a key present with a
\* null value: None.lower() raises AttributeError and None >= x TypeError.
\* The products carry no in_stock key, so p.get('in_stock', False) is False.
apply_filters(res, filters) ==
    LET filtered == res
        by_brand ==
            IF filters.brand # None /\ filters.brand[1] # ""
            THEN IF \E i \in DOMAIN filtered : Get(filtered[i], "brand", Some("")) = None
                 THEN [kind |-> "raised", error |-> "AttributeError"]
                 ELSE Returned(SelectSeq(filtered, LAMBDA p :
                          NameLower(Get(p, "brand", Some(""))[1]) = NameLower(filters.brand[1])))
            ELSE Returned(filtered)
        by_category ==
            IF by_brand.kind = "raised" THEN by_brand
            ELSE IF filters.category # None /\ filters.category[1] # ""
            THEN IF \E i \in DOMAIN by_brand.value :
                        Get(by_brand.value[i], "category", Some("")) = None
                 THEN [kind |-> "raised", error |-> "AttributeError"]
                 ELSE Returned(SelectSeq(by_brand.value, LAMBDA p :
                          NameLower(Get(p, "category", Some(""))[1])
                              = NameLower(filters.category[1])))
            ELSE by_brand
        by_min ==
            IF by_category.kind = "raised" THEN by_category
            ELSE IF filters.min_price # None
            THEN IF \E i \in DOMAIN by_category.value :
                        Get(by_category.value[i], "sale_price", Some(0)) = None
                 THEN [kind |-> "raised", error |-> "TypeError"]
                 ELSE Returned(SelectSeq(by_category.value, LAMBDA p :
                          Get(p, "sale_price", Some(0))[1] >= filters.min_price[1]))
            ELSE by_category
        by_max ==
            IF by_min.kind = "raised" THEN by_min
            ELSE IF filters.max_price # None
            THEN IF \E i \in DOMAIN by_min.value :
                        Get(by_min.value[i], "sale_price", Some(0)) = None
                 THEN [kind |-> "raised", error |-> "TypeError"]
                 ELSE Returned(SelectSeq(by_min.value, LAMBDA p :
                          Get(p, "sale_price", Some(0))[1] <= filters.max_price[1]))
            ELSE by_min
    IN IF by_max.kind = "raised" THEN by_max
       ELSE IF filters.in_stock # None
       THEN Returned(SelectSeq(by_max.value, LAMBDA p :
                Get(p, "in_stock", 0) = (IF filters.in_stock[1] THEN 1 ELSE 0)))
       ELSE by_max

\* the SearchResponse, or the HTTP 500: an exception of apply_filters is
\* caught by the handler, and parsed_query must be a dict or None
SearchRespond(r, p, res) ==
    IF r.filters # None /\ apply_filters(res, r.filters[1]).kind = "raised"
    THEN Err(500, "filters")
    ELSE IF p.kind \in {"array", "string"} THEN Err(500, "validation")
    ELSE LET kept == IF r.filters # None THEN apply_filters(res, r.filters[1]).value
                     ELSE res
             shown == Prefix(kept, r.top_k)
         IN Ok(200, [parsed_query |-> IF p.kind = "dict" THEN Some(p.d) ELSE None,
                     results |-> [i \in DOMAIN shown |->
                                    [sku |-> shown[i].sku,
                                     similarity |-> ReportedSimilarity(shown[i])]]])

\* the bundle IntelligentSearchSystem.search returns with return_raw=True, or
\* the exception it lets through
DirectRespond(r, p, c, res) ==
    IF p.kind = "raised" THEN Err(0, "parse")
    ELSE IF c.kind = "raised" THEN Err(0, "compose")
    ELSE Ok(0, [query |-> r.query, parsed_query |-> p, products |-> res,
                response |-> c.value])

----------------------------------------------------------------------------
(* Actions *)

NotCalled == [kind |-> "not_called"]

\* how often the process has done something: "never", "once", "again" (more
\* than once)
Again(c) == IF c = "never" THEN "once" ELSE "again"

\* the places that construct an OpenAI client: IntelligentSearchSystem.__init__,
\* parse_query_with_gpt (no client passed), embed_search_query
ClientSites == {"system", "parse", "embed"}

\* OpenAI(api_key=api_key) at a site
NewClient(proc, site) == [proc EXCEPT !.clients[site] = Again(@)]

\* load_product_embeddings reads the table and unpickles every embedding
StoreLoad(proc) == [proc EXCEPT !.loads = Again(@)]

\* get_search_system: the singleton is constructed when the global is None
get_search_system(proc) ==
    IF proc.search_system THEN proc
    ELSE NewClient([proc EXCEPT !.search_system = TRUE], "system")

\* The handler of a request runs on the event loop of the server: `async def`
\* with no await in it, so it holds the loop from its first statement to its
\* return, the blocking model calls and database reads included
LoopBusy == pc \in {"parse", "rank", "compose", "respond"} /\ req.kind \in {"chat", "search"}

\* The handler of a request starts (of a request of the backlog, when there
\* is one).  /chat gets the singleton IntelligentSearchSystem and a direct call
\* constructs one; the constructor raises ValueError without an API key (a 503
\* for /chat).
Receive(kinds, queries, topks, histories) ==
    /\ pc = "idle"
    /\ backlog' = IF backlog > 0 THEN backlog - 1 ELSE 0
    /\ \E kind \in kinds, q \in queries, k \in topks, path \in {DATABASE_PATH, OtherPath} :
        /\ kind = "chat" => k = ChatTopK /\ path = DATABASE_PATH
        /\ kind = "search" => k >= 1 /\ path = DATABASE_PATH
        /\ \E h \in histories :
              req' = IF kind = "chat"
                     THEN [kind |-> kind, query |-> q, top_k |-> k, db_path |-> path,
                           conversation_history |-> h]
                     ELSE IF kind = "search"
                     THEN [kind |-> kind, query |-> q, top_k |-> k, db_path |-> path,
                           filters |-> None]
                     ELSE [kind |-> kind, query |-> q, top_k |-> k, db_path |-> path]
        /\ IF kind # "search" /\ ~env.api_key
           THEN /\ pc' = "done"
                /\ response' = Err(IF kind = "chat" THEN 503 ELSE 0, "config")
           ELSE /\ pc' = "parse"
                /\ UNCHANGED response
        /\ process' = IF ~env.api_key THEN process
                       ELSE CASE kind = "chat" -> get_search_system(process)
                              [] kind = "direct" -> NewClient(process, "system")
                              [] OTHER -> process
    /\ UNCHANGED <<catalog, env, intentOut, parsed, embedOut, results, composeOut, composed,
                   suggested, earlier>>

\* A /search request that carries a filters object
ReceiveFiltered(queries, topks, filters) ==
    /\ pc = "idle"
    /\ backlog' = IF backlog > 0 THEN backlog - 1 ELSE 0
    /\ \E q \in queries, k \in topks, f \in filters :
        /\ k >= 1
        /\ req' = [kind |-> "search", query |-> q, top_k |-> k, db_path |-> DATABASE_PATH,
                   filters |-> Some(f)]
    /\ pc' = "parse"
    /\ UNCHANGED <<catalog, env, intentOut, parsed, embedOut, results, composeOut, composed,
                   suggested, response, process, earlier>>

\* extract_query_intent: the model call (not made when /search finds no API
\* key) and the parse of its output
ParseStep(outcomes) ==
    /\ pc = "parse"
    /\ LET has_client == req.kind # "search"
       IN \E out \in (IF has_client \/ env.api_key THEN outcomes ELSE {NotCalled}) :
            /\ intentOut' = out
            /\ parsed' = parse_query_with_gpt(req.query, has_client, env.api_key, out)
            /\ pc' = ParseNext(req.kind, parsed')
            /\ process' = IF ~has_client /\ env.api_key
                           THEN NewClient(process, "parse") ELSE process
    /\ UNCHANGED <<catalog, env, req, embedOut, results, composeOut, composed, suggested,
                   response, backlog, earlier>>

\* a rank step whose tie order changes once the process has loaded the store
RankStep_warm(outcomes) ==
    /\ pc = "rank"
    /\ LET rows == Db(req.db_path)
           calls == Len(load_product_embeddings(rows).products) > 0 /\ env.api_key
           stable == IF process.loads = "never" THEN env.stable_sort ELSE ~env.stable_sort
       IN \E out \in (IF calls THEN outcomes ELSE {NotCalled}) :
            /\ embedOut' = out
            /\ results' = search_products(rows, env.api_key, out, req.top_k, stable)
            /\ process' = IF calls THEN NewClient(StoreLoad(process), "embed")
                           ELSE StoreLoad(process)
    /\ pc' = IF req.kind = "search" THEN "respond" ELSE "compose"
    /\ UNCHANGED <<catalog, env, req, intentOut, parsed, composeOut, composed, suggested,
                   response, backlog, earlier>>

\* a rank step in which IntelligentSearchSystem.search returns nothing when the
\* intent came from the fallback parser
RankStep_by_intent(outcomes) ==
    /\ pc = "rank"
    /\ LET rows == Db(req.db_path)
           calls == Len(load_product_embeddings(rows).products) > 0 /\ env.api_key
       IN \E out \in (IF calls THEN outcomes ELSE {NotCalled}) :
            /\ embedOut' = out
            /\ results' = IF req.kind # "search" /\ parsed.kind = "dict"
                              /\ Get(parsed.d, "fallback", None) = Some(TRUE)
                           THEN <<>>
                           ELSE search_products(rows, env.api_key, out, req.top_k,
                                                env.stable_sort)
            /\ process' = IF calls THEN NewClient(StoreLoad(process), "embed")
                           ELSE StoreLoad(process)
    /\ pc' = IF req.kind = "search" THEN "respond" ELSE "compose"
    /\ UNCHANGED <<catalog, env, req, intentOut, parsed, composeOut, composed, suggested,
                   response, backlog, earlier>>

\* /search calls search_products, IntelligentSearchSystem.search calls
\* hybrid_search without the parsed query; the embedding call is made when the
\* store is not empty and the API key is set
RankStep(outcomes) ==
    /\ pc = "rank"
    /\ LET rows == Db(req.db_path)
           calls == Len(load_product_embeddings(rows).products) > 0 /\ env.api_key
       IN \E out \in (IF calls THEN outcomes ELSE {NotCalled}) :
            /\ embedOut' = out
            /\ results' = IF req.kind = "search"
                           THEN search_products(rows, env.api_key, out, req.top_k,
                                                env.stable_sort)
                           ELSE hybrid_search(rows, env.api_key, out, None, req.top_k,
                                              env.stable_sort)
            /\ process' = IF calls THEN NewClient(StoreLoad(process), "embed")
                           ELSE StoreLoad(process)
    /\ pc' = IF req.kind = "search" THEN "respond" ELSE "compose"
    /\ UNCHANGED <<catalog, env, req, intentOut, parsed, composeOut, composed, suggested,
                   response, backlog, earlier>>

\* generate_response, which reads the upsells from config.DATABASE_PATH
ComposeStep(outcomes) ==
    /\ pc = "compose"
    /\ \E out \in outcomes :
        LET c == generate_response(Db(DATABASE_PATH), results, TRUE, out)
        IN /\ composed' = [k \in DOMAIN c \ {"called", "upsells"} |-> c[k]]
           /\ composeOut' = IF c.called THEN out ELSE NotCalled
           /\ suggested' = c.upsells
    /\ pc' = "respond"
    /\ UNCHANGED <<catalog, env, req, intentOut, parsed, embedOut, results, response,
                   process, backlog, earlier>>

\* the rest of the handler: the response, or the error, the caller receives
Respond ==
    /\ pc = "respond"
    /\ response' = CASE req.kind = "chat" -> ChatRespond(req, parsed, composed, results)
                     [] req.kind = "search" -> SearchRespond(req, parsed, results)
                     [] OTHER -> DirectRespond(req, parsed, composed, results)
    /\ req' = IF req.kind = "chat" THEN ChatRequestAfter(req, parsed, composed) ELSE req
    /\ pc' = "done"
    /\ UNCHANGED <<catalog, env, intentOut, parsed, embedOut, results, composeOut, composed,
                   suggested, process, backlog, earlier>>

\* the next request starts from a fresh call frame
Finish ==
    /\ pc = "done"
    /\ pc' = "idle"
    /\ req' = Unset /\ intentOut' = Unset /\ parsed' = Unset /\ embedOut' = Unset
    /\ results' = Unset /\ composeOut' = Unset /\ composed' = Unset /\ response' = Unset
    /\ suggested' = None
    /\ UNCHANGED <<catalog, env, process, backlog, earlier>>

\* Finish, with the request that ended kept for comparison with a later one
\* (when it was ranked)
FinishRemember ==
    /\ pc = "done"
    /\ pc' = "idle"
    /\ earlier' = IF embedOut.kind = "unset" THEN earlier
                  ELSE [kind |-> "request", handler |-> req.kind,
                        query |-> req.query, top_k |-> req.top_k,
                        db_path |-> req.db_path, embedOut |-> embedOut,
                        parsed |-> parsed, results |-> results]
    /\ req' = Unset /\ intentOut' = Unset /\ parsed' = Unset /\ embedOut' = Unset
    /\ results' = Unset /\ composeOut' = Unset /\ composed' = Unset /\ response' = Unset
    /\ suggested' = None
    /\ UNCHANGED <<catalog, env, process, backlog>>

\* Another request reaches the server; its handler starts when the event loop
\* takes it up
Arrive ==
    /\ backlog < MaxBacklog
    /\ backlog' = backlog + 1
    /\ UNCHANGED <<catalog, env, pc, req, intentOut, parsed, embedOut, results, composeOut,
                   composed, suggested, response, process, earlier>>

InitWith(catalogs, envs) ==
    /\ catalog \in catalogs
    /\ env \in envs
    /\ pc = "idle"
    /\ req = Unset /\ intentOut = Unset /\ parsed = Unset /\ embedOut = Unset
    /\ results = Unset /\ composeOut = Unset /\ composed = Unset /\ response = Unset
    /\ suggested = None
    /\ process = [search_system |-> FALSE, loads |-> "never",
                  clients |-> [site \in ClientSites |-> "never"]]
    /\ backlog = 0
    /\ earlier = Unset

NextWith(kinds, queries, topks, histories, intents, embeds, completions) ==
    \/ Receive(kinds, queries, topks, histories)
    \/ ParseStep(intents)
    \/ RankStep(embeds)
    \/ ComposeStep(completions)
    \/ Respond
    \/ Finish

----------------------------------------------------------------------------
(* Inputs *)

Kinds == {"chat", "search", "direct"}

Envs == [api_key : BOOLEAN, stable_sort : BOOLEAN]

\* "GE filter", "fridge", "bosch dryer", "pump"
QGeFilter == <<"G", "E", " ", "f", "i", "l", "t", "e", "r">>
QFridge == <<"f", "r", "i", "d", "g", "e">>
QBoschDryer == <<"b", "o", "s", "c", "h", " ", "d", "r", "y", "e", "r">>
QPump == <<"p", "u", "m", "p">>
Queries == {QGeFilter, QFridge, QBoschDryer, QPump}

Vecs == {<<1, 0>>, <<0, 1>>, <<1, 1>>}

EmbedOutcomes(vecs) == {[kind |-> "error"]} \cup {[kind |-> "vec", vec |-> v] : v \in vecs}

Completions == {[kind |-> "error"]}
    \cup {[kind |-> "content", content |-> c] : c \in {None, Some(""), Some("Here is what I found ...")}}

----------------------------------------------------------------------------
(* Specifications.  All run the same pipeline; they differ in the family of  *)
(* catalogs and of inputs they draw from.                                   *)

Null == [kind |-> "null"]
Garbage == [kind |-> "garbage"]

\* The pipeline: catalogs of at most MaxRows rows of brand GE, in stock,
\* with or without a sale price, with or without an embedding
MaxRows == 3
PipelineTemplates ==
    {Row(0, Some("GE"), p, 1, e) : p \in {None, Some(10)}, e \in {Pickled(<<1, 0>>), Null}}
PipelineIntents ==
    {[kind |-> "error"], [kind |-> "malformed"], [kind |-> "object", obj |-> ModelObject(IntentKeys)]}

Init == InitWith(CatalogsOver(PipelineTemplates, MaxRows), Envs)
Next == NextWith(Kinds, {QGeFilter}, {1, ChatTopK}, {<<>>}, PipelineIntents,
                 EmbedOutcomes({<<1, 0>>}), Completions)
Spec == Init /\ [][Next]_vars

\* Ranking: catalogs of at most MaxProducts rows that differ in their
\* embedding, every query vector, every top_k in 0..MaxTopK
RankTemplates ==
    {Row(0, Some("GE"), Some(10), 1, e) : e \in {Pickled(v) : v \in Vecs} \cup {Garbage}}

InitRank == InitWith(CatalogsOver(RankTemplates, MaxProducts),
                     {e \in Envs : e.api_key})
NextRank == NextWith({"search", "direct"}, {QPump}, 0..MaxTopK, {<<>>}, {[kind |-> "error"]},
                     EmbedOutcomes(Vecs), {[kind |-> "error"]})
SpecRank == InitRank /\ [][NextRank]_vars

\* Intent parsing: every query, every model output that omits at most
\* MaxOmitted keys
ParseTemplates == {Row(0, Some("GE"), Some(10), 1, Pickled(<<1, 0>>))}

InitParse == InitWith(CatalogsOver(ParseTemplates, 1), Envs)
NextParse == NextWith(Kinds, Queries, {ChatTopK}, {<<>>}, IntentOutcomes(MaxOmitted),
                      EmbedOutcomes({<<1, 0>>}), {[kind |-> "error"]})
SpecParse == InitParse /\ [][NextParse]_vars

\* Upsell selection: catalogs of at most MaxCatalog rows.  The in-stock rows
\* differ in brand (one of them NULL), category and sale price, the
\* out-of-stock rows in brand; all rows are equally similar to the query, so
\* the first result is the last row of the table under the tie order drawn,
\* and the catalogs hold every row in that place
UpsellBrands == {Some("GE"), Some("LG"), None}
UpsellCategories == {Some("Refrigerator Parts"), Some("Dryer Parts")}
UpsellTemplates ==
    {[Row(0, b, p, 1, Pickled(<<1, 0>>)) EXCEPT !.category = c] :
        b \in UpsellBrands, c \in UpsellCategories, p \in {Some(10), Some(30)}}
    \cup {Row(0, b, Some(10), 0, Pickled(<<1, 0>>)) : b \in UpsellBrands}

InitUpsell == InitWith(CatalogsOver(UpsellTemplates, MaxCatalog),
                       {e \in Envs : e.api_key /\ e.stable_sort})
NextUpsell == NextWith({"chat", "direct"}, {QPump}, {1}, {<<>>}, {[kind |-> "error"]},
                       EmbedOutcomes({<<1, 0>>}),
                       {[kind |-> "error"], [kind |-> "content", content |-> Some("Here is what I found ...")]})
SpecUpsell == InitUpsell /\ [][NextUpsell]_vars

\* Dimensions: stored embeddings of two components, query embeddings of one,
\* two or three
DimTemplates == {Row(0, Some("GE"), Some(10), 1, Pickled(v)) : v \in {<<1, 0>>, <<0, 1>>}}
DimVecs == {<<1>>, <<1, 0>>, <<1, 0, 0>>}

InitDim == InitWith(CatalogsOver(DimTemplates, MaxRows), Envs)
NextDim == NextWith(Kinds, {QPump}, {1, ChatTopK}, {<<>>}, {[kind |-> "error"]},
                    EmbedOutcomes(DimVecs),
                    {[kind |-> "error"], [kind |-> "content", content |-> Some("Here is what I found ...")]})
SpecDim == InitDim /\ [][NextDim]_vars

\* The server process: /chat and /search requests, which reach the server at
\* any time, at most MaxBacklog of them waiting for their handler to start
ServerKinds == {"chat", "search"}

InitServer == InitWith(CatalogsOver(ParseTemplates, 1), Envs)
NextServer ==
    \/ NextWith(ServerKinds, {QPump}, {1, ChatTopK}, {<<>>}, {[kind |-> "error"]},
                EmbedOutcomes({<<1, 0>>}), {[kind |-> "error"]})
    \/ Arrive
SpecServer == InitServer /\ [][NextServer]_vars

\* Conversations: /chat requests that carry a history of at most MaxHistory
\* earlier messages
PriorMessages ==
    {ChatMessage("user", [kind |-> "message", text |-> QFridge]), ChatMessage("assistant", Apology)}
Histories(maxLen) == UNION {[1..n -> PriorMessages] : n \in 0..maxLen}

InitChat == InitWith(CatalogsOver(ParseTemplates, 1), Envs)
NextChat == NextWith({"chat"}, {QPump}, {ChatTopK}, Histories(MaxHistory), {[kind |-> "error"]},
                     EmbedOutcomes({<<1, 0>>}), Completions)
SpecChat == InitChat /\ [][NextChat]_vars

\* Repeated requests: the pipeline with each ranked request kept for
\* comparison with the next ones; catalogs with tied and untied embeddings
RepeatIntents == {[kind |-> "error"], [kind |-> "object", obj |-> ModelObject(IntentKeys)]}

InitRepeat == InitWith(CatalogsOver(RankTemplates, MaxProducts - 1), {e \in Envs : e.api_key})
NextRepeat ==
    \/ Receive({"search", "direct"}, {QPump}, {1, 2}, {<<>>})
    \/ ParseStep(RepeatIntents)
    \/ RankStep(EmbedOutcomes({<<1, 0>>, <<1, 1>>}))
    \/ ComposeStep({[kind |-> "error"]})
    \/ Respond
    \/ FinishRemember
SpecRepeat == InitRepeat /\ [][NextRepeat]_vars

\* Loading: catalogs that mix rows with a decodable payload, a payload that
\* does not unpickle, an empty payload and no payload
EmptyPayload == [kind |-> "empty"]
LoadTemplates ==
    {Row(0, Some("GE"), Some(10), 1, e) :
        e \in {Pickled(<<1, 0>>), Pickled(<<0, 1>>), Garbage, EmptyPayload, Null}}

MaxLoad == 4
InitLoad == InitWith(CatalogsOver(LoadTemplates, MaxLoad), Envs)
NextLoad == NextWith({"search", "direct"}, {QPump}, {1}, {<<>>}, {[kind |-> "error"]},
                     EmbedOutcomes({<<1, 0>>}), {[kind |-> "error"]})
SpecLoad == InitLoad /\ [][NextLoad]_vars

\* Filters: /search with every combination of supplied filters over catalogs
\* of at most MaxFiltered rows whose brand, category and sale price may be
\* null and whose stock flag is either value
MaxFiltered == 2
FilterTemplates ==
    {[Row(0, b, p, s, Pickled(<<1, 0>>)) EXCEPT !.category = c] :
        b \in {Some("GE"), None}, c \in {Some("Refrigerator Parts"), None},
        p \in {Some(10), None}, s \in {0, 1}}
SearchFilters ==
    [brand : {None, Some("ge")}, category : {None, Some("Dryer Parts")},
     min_price : {None, Some(0), Some(20)}, max_price : {None, Some(20)},
     in_stock : {None, Some(TRUE), Some(FALSE)}]

InitFilter == InitWith(CatalogsOver(FilterTemplates, MaxFiltered), {e \in Envs : e.api_key})
NextFilter ==
    \/ ReceiveFiltered({QPump}, {1, 2}, SearchFilters)
    \/ ParseStep({[kind |-> "error"]})
    \/ RankStep(EmbedOutcomes({<<1, 0>>}))
    \/ Respond
    \/ Finish
SpecFilter == InitFilter /\ [][NextFilter]_vars

\* Bundles of more than three products: IntelligentSearchSystem.search with
\* top_k of three and MaxTopK over catalogs of at most MaxWide in-stock rows of
\* one brand
MaxWide == 5
WideTemplates == {Row(0, Some("GE"), Some(10), 1, Pickled(v)) : v \in {<<1, 0>>, <<0, 1>>}}

InitWide == InitWith(CatalogsOver(WideTemplates, MaxWide), Envs)
NextWide == NextWith({"direct"}, {QPump}, {3, MaxTopK}, {<<>>}, {[kind |-> "error"]},
                     EmbedOutcomes({<<1, 0>>}), {[kind |-> "error"]})
SpecWide == InitWide /\ [][NextWide]_vars

----------------------------------------------------------------------------
(* Claims *)

\* search_products has returned for the request being handled
Ranked == embedOut.kind # "unset"

\* the SKUs load_product_embeddings keeps: the rows with a decodable payload
LoadedSkus(rows) == {rows[i].sku : i \in {j \in DOMAIN rows : rows[j].embedding.kind = "pickle"}}

\* the rank step ran to its end: the store was not empty and the query was embedded
RankRan == Ranked /\ embedOut.kind = "vec"

\* C1: when the embedding service call raises a transport error, the caller
\* receives an explicit error and no bundle.
C1_EmbedErrorIsReported ==
    (pc = "done" /\ embedOut.kind = "error") => ~response.ok

\* C2: for top_k >= 1 the rank step returns at most top_k products and their
\* similarities are non-increasing from first to last.
C2_AtMostTopKSortedDescending ==
    (RankRan /\ req.top_k >= 1) =>
        /\ Len(results) <= req.top_k
        /\ \A i \in 1..(Len(results) - 1) :
              results[i].similarity >= results[i + 1].similarity

\* C2 witness: a ranked list cut to top_k, with strictly decreasing scores in it
C2_Witness ==
    /\ RankRan /\ req.top_k >= 2
    /\ Len(results) = req.top_k
    /\ Cardinality(LoadedSkus(Db(req.db_path))) > req.top_k
    /\ results[1].similarity > results[2].similarity

\* C3: for N loaded products and top_k >= 1 the rank step returns exactly
\* min(top_k, N) results, each a distinct product of the loaded set.
C3_ExactlyMinDistinctLoaded ==
    (RankRan /\ req.top_k >= 1) =>
        LET loaded == LoadedSkus(Db(req.db_path))
        IN /\ Len(results) = Min(req.top_k, Cardinality(loaded))
           /\ \A i \in DOMAIN results : results[i].sku \in loaded
           /\ \A i, j \in DOMAIN results : i # j => results[i].sku # results[j].sku

\* C3 witness: top_k exceeds the number of loaded products, two of which are
\* returned, and the table holds a row that was skipped
C3_Witness ==
    /\ RankRan
    /\ Len(results) = 2
    /\ req.top_k > 2
    /\ Len(Db(req.db_path)) > 2

\* C4: of two products with equal similarity, the one loaded earlier comes
\* first in the results, and it is the one kept when both compete for the
\* last top_k slot.
C4_TiesInLoadOrder ==
    (RankRan /\ req.top_k >= 1) =>
        /\ \A i, j \in DOMAIN results :
              (i < j /\ results[i].similarity = results[j].similarity)
                  => results[i].sku < results[j].sku
        /\ \A i \in DOMAIN results :
              \A r \in DOMAIN Db(req.db_path) :
                  LET row == Db(req.db_path)[r]
                  IN (/\ row.embedding.kind = "pickle"
                      /\ row.sku \notin {results[k].sku : k \in DOMAIN results}
                      /\ CosSim(embedOut.vec, row.embedding.vec) = results[i].similarity)
                     => results[i].sku < row.sku

\* the intent model call was made for the request being handled
IntentCalled == intentOut.kind \notin {"unset", "not_called"}

\* C5: whatever the model call did, the intent parser returns a record with
\* all eight keys, a key the model omitted being null.
C5_AllEightKeys ==
    IntentCalled =>
        /\ parsed.kind = "dict"
        /\ IntentKeys \subseteq DOMAIN parsed.d
        /\ intentOut.kind = "object" =>
              \A k \in IntentKeys \ DOMAIN intentOut.obj : parsed.d[k] = None

\* C6: non-JSON model output and a failed model call both give the rule-based
\* fallback result for the query text: fallback flag true, intent find_part,
\* urgency normal.
C6_FallbackOnMalformedOrError ==
    intentOut.kind \in {"malformed", "error"} =>
        /\ parsed.kind = "dict"
        /\ parsed.d = create_fallback_parse(req.query)
        /\ parsed.d.fallback = Some(TRUE)
        /\ parsed.d.intent = Some("find_part")
        /\ parsed.d.urgency = Some("normal")
        /\ req.query = QBoschDryer =>
              /\ parsed.d.brand = Some(<<"B", "o", "s", "c", "h">>)
              /\ parsed.d.category = Some("dryer")
              /\ parsed.d.keywords = Some(<< <<"b", "o", "s", "c", "h">>,
                                            <<"d", "r", "y", "e", "r">> >>)

\* C6 witness: the model call failed for "bosch dryer" and the fallback found
\* the brand
C6_Witness ==
    /\ intentOut.kind = "error"
    /\ req.query = QBoschDryer
    /\ parsed.kind = "dict"
    /\ parsed.d.brand # None

\* C7: whatever the intent parse did, the request goes on to the ranking
\* step, and no error the caller receives comes from the parse.
ParseStepDone == intentOut.kind # "unset"

Composed == composed.kind # "unset"

\* the composition model call failed, or returned a completion text
ModelAnswered ==
    \/ composeOut.kind = "error"
    \/ composeOut.kind = "content" /\ composeOut.content # None

\* C8: for every product list and every outcome of the model call (a
\* completion text, or a failed call), the narrative generate_response
\* returns is a non-empty string.
C8_NarrativeNonEmpty ==
    (Composed /\ ModelAnswered) =>
        composed.kind = "returned" /\ IsNonEmptyStr(composed.value)

\* C9: when the composition model call fails for a non-empty product list,
\* generate_response returns the template narrative, with at most 3 primary
\* products and at most 2 upsells, and raises nothing.
C9_TemplateOnModelFailure ==
    (Composed /\ composeOut.kind = "error" /\ results # <<>>) =>
        /\ composed.kind = "returned"
        /\ composed.value.kind = "template"
        /\ Len(composed.value.primary) <= 3
        /\ Len(composed.value.upsells) <= 2

\* the composition model call did not return an empty or missing completion
NoEmptyCompletion ==
    composeOut.kind = "content" =>
        composeOut.content # None /\ composeOut.content # Some("")

\* C10: whenever ranking returns at least one product,
\* IntelligentSearchSystem.search returns a bundle with the ranked products
\* and a non-empty narrative, whether the intent parse and the composition
\* call fail or not and whatever the catalog holds (null sale prices
\* included): no error of an advisory step reaches the caller.
C10_BundleWheneverRanked ==
    (pc = "done" /\ req.kind = "direct" /\ Ranked /\ results # <<>> /\ NoEmptyCompletion) =>
        /\ response.ok
        /\ response.body.products = results
        /\ IsNonEmptyStr(response.body.response)

\* suggest_upsells has run for the request being handled
Suggested == suggested # None

\* the products passed to suggest_upsells: the first three results
PrimaryProducts == Prefix(results, 3)
PrimarySkus == {PrimaryProducts[i].sku : i \in DOMAIN PrimaryProducts}

PrimaryFirst == PrimaryProducts[1]
Known(v) == v # None /\ v # Some("")

\* the in-stock rows of the upsell table outside the primary SKU set
InStockOutside ==
    {catalog[i] : i \in {j \in DOMAIN catalog :
                            catalog[j].in_stock = 1 /\ catalog[j].sku \notin PrimarySkus}}

\* the primary products were ranked from the table the upsells are read from
SameTable == req.db_path = DATABASE_PATH

\* the pools of the relaxation order
PoolBrandOtherCategory ==
    {r \in InStockOutside : r.brand = PrimaryFirst.brand /\ r.category # PrimaryFirst.category}
PoolBrand == {r \in InStockOutside : r.brand = PrimaryFirst.brand}
FirstNonEmptyPool ==
    IF PoolBrandOtherCategory # {} THEN PoolBrandOtherCategory
    ELSE IF PoolBrand # {} THEN PoolBrand
    ELSE InStockOutside

\* C12: when the first primary product has a known brand and a known
\* category, the upsells come from the first non-empty pool in the order
\* (same brand, other category), (same brand), (unconstrained), and the list
\* is empty only when the unconstrained pool is empty.
C12_RelaxationOrder ==
    (Suggested /\ SameTable /\ Known(PrimaryFirst.brand) /\ Known(PrimaryFirst.category)) =>
        /\ \A i \in DOMAIN suggested[1] : suggested[1][i] \in FirstNonEmptyPool
        /\ suggested[1] = <<>> => InStockOutside = {}

\* C13: every upsell suggest_upsells returns is in stock (in_stock = 1).
C13_UpsellsInStock ==
    Suggested => \A i \in DOMAIN suggested[1] : suggested[1][i].in_stock = 1

\* C13 witness: an upsell is returned while a row of the same brand outside
\* the primary list is out of stock
C13_Witness ==
    /\ Suggested
    /\ suggested[1] # <<>>
    /\ \E i \in DOMAIN catalog :
          /\ catalog[i].in_stock = 0
          /\ catalog[i].sku \notin PrimarySkus
          /\ catalog[i].brand = PrimaryFirst.brand

\* sale price b within [0.5 x, 1.5 x] of sale price a (both known)
InPriceBand(a, b) == 2 * b[1] >= a[1] /\ 2 * b[1] <= 3 * a[1]

\* C14: with a known primary brand that an in-stock row outside the primary
\* list has, every upsell has that brand; with an unknown primary brand
\* (null or empty) the brand excludes no candidate, so a row that meets
\* every other condition of the selector is enough for an upsell.
C14_BrandConstraint ==
    (Suggested /\ SameTable) =>
        /\ (Known(PrimaryFirst.brand) /\ PoolBrand # {}) =>
              \A i \in DOMAIN suggested[1] : suggested[1][i].brand = PrimaryFirst.brand
        /\ (~Known(PrimaryFirst.brand)
              /\ \E r \in InStockOutside :
                    /\ r.category # PrimaryFirst.category
                    /\ InPriceBand(PrimaryFirst.sale_price, r.sale_price)) =>
              suggested[1] # <<>>

\* C15: every upsell has a sale price within [0.5 x, 1.5 x] of the first
\* primary product's sale price.
C15_UpsellsInPriceBand ==
    (Suggested /\ SameTable) =>
        \A i \in DOMAIN suggested[1] :
            InPriceBand(PrimaryFirst.sale_price, suggested[1][i].sale_price)

\* the table searched holds no row with a decodable embedding
StoreEmpty == LoadedSkus(Db(req.db_path)) = {}

\* C16: when the table holds no row with a decodable embedding, the search
\* ends in a store-empty failure the caller can tell from a search without
\* matches: neither a crash nor an ordinary response.
C16_EmptyStoreIsReported ==
    (pc = "done" /\ Ranked /\ StoreEmpty) =>
        ~response.ok /\ response.cause = "store_empty"

\* the column count of the stored embedding matrix (of a non-empty store)
StoreDim == Len(load_product_embeddings(Db(req.db_path)).embeddings[1])

\* C17: when the query vector's dimension differs from the column count of
\* the stored embedding matrix, the request fails with a dimension-mismatch
\* error; no result list, empty or not, is returned as a successful search.
C17_DimensionMismatchIsReported ==
    (pc = "done" /\ Ranked /\ embedOut.kind = "vec" /\ Len(embedOut.vec) # StoreDim) =>
        ~response.ok /\ response.cause = "dimension_mismatch"

\* the request being handled waits on an external call: the intent parse,
\* the query embedding or the narrative composition
AwaitingCall ==
    \/ pc = "parse" /\ (req.kind # "search" \/ env.api_key)
    \/ pc = "rank" /\ env.api_key /\ ~StoreEmpty
    \/ pc = "compose" /\ generate_response(Db(DATABASE_PATH), results, TRUE,
                                           [kind |-> "error"]).called

\* the handler of a request of the backlog starts
StartPending == Receive(ServerKinds, {QPump}, {1, ChatTopK}, {<<>>})

\* C18: with two requests in flight in the server process, while one waits
\* on an external call the other can take a step: its handler can start.
C18_NoRequestBlocksAnother ==
    (backlog > 0 /\ LoopBusy /\ AwaitingCall) => ENABLED StartPending

\* C19: over any sequence of requests handled by the server process, the
\* embedding store is loaded once and each model client is constructed once:
\* no request loads the store again or constructs a client again.
C19_InitialisedOncePerProcess ==
    /\ process.loads # "again"
    /\ \A site \in ClientSites : process.clients[site] # "again"

\* C20: the /chat handler returns the request's history followed by the
\* entries {user, request message} and {assistant, narrative}, in that order,
\* and leaves the request's own history list as it was.
C20_HistoryAppendedOnCopy ==
    [][(pc = "respond" /\ req.kind = "chat") =>
          /\ req'.conversation_history = req.conversation_history
          /\ response'.ok =>
                response'.body.conversation_history =
                    req.conversation_history
                        \o <<[role |-> "user", content |-> [kind |-> "message", text |-> req.query]],
                             [role |-> "assistant", content |-> composed.value]>>]_vars

\* C20 witness: a /chat request with two earlier messages has been answered
C20_Witness ==
    /\ pc = "done"
    /\ req.kind = "chat"
    /\ response.ok
    /\ Len(req.conversation_history) = 2
    /\ Len(response.body.conversation_history) = 4

\* the request being ranked repeats an earlier one of this process: same
\* table, query text, top_k and embedding-service response
Repeats ==
    /\ Ranked
    /\ earlier.kind = "request"
    /\ earlier.query = req.query
    /\ earlier.top_k = req.top_k
    /\ earlier.db_path = req.db_path
    /\ earlier.embedOut = embedOut

DecodablePositions ==
    {j \in DOMAIN Db(req.db_path) : Db(req.db_path)[j].embedding.kind = "pickle"}
IthDecodable(i) ==
    CHOOSE j \in DecodablePositions : Cardinality({k \in DecodablePositions : k < j}) = i - 1

\* C22: load_product_embeddings returns as many vectors as products,
\* vectors[i] being the decoded embedding of products[i]; the rows are those
\* whose payload decodes, in table order, the others being skipped.
C22_LoadKeepsAlignment ==
    Ranked =>
        LET rows == Db(req.db_path)
            loaded == load_product_embeddings(rows)
        IN /\ Len(loaded.products) = Len(loaded.embeddings)
           /\ Len(loaded.products) = Cardinality(DecodablePositions)
           /\ \A i \in DOMAIN loaded.products :
                 /\ loaded.products[i].sku = rows[IthDecodable(i)].sku
                 /\ loaded.embeddings[i] = rows[IthDecodable(i)].embedding.vec

\* C22 witness: a table searched in which a row that does not unpickle and a
\* row with an empty payload come before two rows with different embeddings
C22_Witness ==
    /\ Ranked
    /\ req.db_path = DATABASE_PATH
    /\ \E a, b, c, d \in DOMAIN catalog :
          /\ a < c /\ b < c /\ c < d
          /\ catalog[a].embedding.kind = "garbage"
          /\ catalog[b].embedding.kind = "empty"
          /\ catalog[c].embedding.kind = "pickle"
          /\ catalog[d].embedding.kind = "pickle"
          /\ catalog[c].embedding.vec # catalog[d].embedding.vec

\* the narrative is the fallback template listing primary products
TemplateShown ==
    /\ Composed
    /\ composed.kind = "returned"
    /\ composed.value.kind = "template"

\* the row of the table searched that has the given sku
TableRow(sku) == CHOOSE r \in {Db(req.db_path)[j] : j \in DOMAIN Db(req.db_path)} : r.sku = sku

\* C23: in the fallback template produced for ranked results, each primary
\* product is listed with its name, SKU and sale price, and a product that is
\* in stock in the catalog is shown as in stock.
C23_TemplateStockAgrees ==
    TemplateShown =>
        \A i \in DOMAIN composed.value.primary :
            LET shown == composed.value.primary[i]
                row == TableRow(shown.sku)
            IN /\ shown.name = row.product_name
               /\ shown.price = row.sale_price[1]
               /\ row.in_stock = 1 => shown.stock = "In Stock"

\* IntelligentSearchSystem.search is ranking a request that repeats an earlier
\* one of its own for which the intent parser returned something else
RepeatsWithOtherIntent ==
    /\ Repeats
    /\ req.kind = "direct"
    /\ earlier.handler = "direct"
    /\ earlier.parsed # parsed

ReturnedSkus == {results[i].sku : i \in DOMAIN results}

\* C25: in a bundle of IntelligentSearchSystem.search with top_k > 3, no SKU
\* of the returned ranked product list (all top_k entries) is also selected as
\* an upsell for the narrative of that request.
C25_UpsellsOutsideReturned ==
    (Suggested /\ req.kind = "direct" /\ req.top_k > 3 /\ SameTable) =>
        \A i \in DOMAIN suggested[1] : suggested[1][i].sku \notin ReturnedSkus

\* the rows of the database the ranked products were loaded from
SearchedRows == {Db(req.db_path)[j] : j \in DOMAIN Db(req.db_path)}

\* C26: for every db_path given to the IntelligentSearchSystem constructor,
\* the upsells used in a search's narrative are rows of that database, the one
\* the ranked products were loaded from.
C26_UpsellsFromSearchedDatabase ==
    (Suggested /\ req.kind = "direct") =>
        \A i \in DOMAIN suggested[1] : suggested[1][i] \in SearchedRows

\* /search has answered with its ranked products
SearchAnswered ==
    /\ pc = "done"
    /\ req.kind = "search"
    /\ response.ok

\* C27: for every ranked product, the similarity the /search response reports
\* is the similarity the rank step computed, a similarity of exactly 0
\* included; it is never null.
C27_SimilarityReportedAsComputed ==
    SearchAnswered =>
        \A i \in DOMAIN response.body.results :
            response.body.results[i].similarity = Some(results[i].similarity)

\* /search has ranked products and passed them to apply_filters
FiltersApplied ==
    /\ pc = "done"
    /\ req.kind = "search"
    /\ req.filters # None

\* the catalog row satisfies every supplied filter: brand and category
\* compared without regard to case, the sale price within the bounds, the
\* stock flag as asked
Satisfies(row, filters) ==
    /\ filters.brand # None =>
          row.brand # None /\ NameLower(row.brand[1]) = NameLower(filters.brand[1])
    /\ filters.category # None =>
          row.category # None /\ NameLower(row.category[1]) = NameLower(filters.category[1])
    /\ filters.min_price # None =>
          row.sale_price # None /\ row.sale_price[1] >= filters.min_price[1]
    /\ filters.max_price # None =>
          row.sale_price # None /\ row.sale_price[1] <= filters.max_price[1]
    /\ filters.in_stock # None => (row.in_stock = 1) = filters.in_stock[1]

\* C28: for every ranked result list of search_products (null brand, category
\* or sale price included) and every combination of supplied filters,
\* apply_filters returns, without raising, exactly the results whose catalog
\* attributes satisfy every supplied filter, in unchanged relative order; with
\* in_stock = true every result in stock in the catalog is kept.
C28_FiltersKeepWhatSatisfies ==
    FiltersApplied =>
        LET out == apply_filters(results, req.filters[1])
        IN /\ out.kind = "returned"
           /\ out.value = SelectSeq(results, LAMBDA p : Satisfies(TableRow(p.sku), req.filters[1]))

\* the intent came from the rule-based fallback extractor
FallbackParsed ==
    /\ intentOut.kind \in {"malformed", "error"}
    /\ parsed.kind = "dict"

\* the listed brands that occur in the query as a whitespace-delimited word,
\* without regard to case
QueryWords == {StrSplit(StrLower(req.query))[i] : i \in DOMAIN StrSplit(StrLower(req.query))}
BrandWords == {FallbackBrands[i] : i \in DOMAIN FallbackBrands} \cap QueryWords

C30_AtMostTopK ==
    (RankRan /\ req.top_k >= 0) => Len(results) <= req.top_k

====
